---------------------------- MODULE Spec2Model ----------------------------
(***************************************************************************)
(* chesscom-analyzer: the analysis session of main() and the five report   *)
(* methods of GameAnalyzer (src/analyzer/analyzer.py).                     *)
(*                                                                         *)
(* A game is the primary line of a parsed PGN file: ply k (1..n) is the    *)
(* k-th move, node k the game node reached after it (node 0 is the root).  *)
(* The replay board is the stack of moves pushed on it; board.turn flips   *)
(* with every push.  The oracle (the UCI engine) answers from White's      *)
(* point of view with a centipawn score or a mate distance, or fails.      *)
(* Optional values (None in the source) are sequences: <<>> is None and    *)
(* <<v>> is the value v.  Comments, Date headers and oracle answers are    *)
(* read where the code reads them.                                         *)
(* RetrySpec is the retry decorator of the API client                      *)
(* (src/utils/decorators.py) on its own, before the analyzer exists.       *)
(***************************************************************************)
EXTENDS Integers, Sequences, FiniteSets, TLC

VARIABLES
    corpus,         \* the .pgn files of the game folder, as read_game() parses them
    engine,         \* "unopened" | "open" | "closed": self.engine
    opens,          \* number of popen_uci() calls
    quits,          \* number of engine.quit() calls
    pc,             \* position in main()
    at,             \* position inside the running report method
    files,          \* local: files of the running report
    i,              \* local: index of the current file (for-loop)
    node,           \* local: index of the current game node
    board,          \* local: replay board, the stack of moves pushed
    move_number,    \* local: move_counter / move_number / move_count of the walk
    previous_time,  \* local: previous_time of the clock reports
    time_spent,     \* local: time_spent of find_time_consuming_positions
    total_seconds,  \* local: total_seconds of summarize_total_time_played
    clock_samples,  \* history: clock samples parsed so far in the current game
    all_mistakes,   \* local: all_mistakes of find_common_mistakes
    prev_eval,      \* local: prev_eval of analyze_opening_issues
    issues,         \* local: issues of analyze_opening_issues
    date_obj,       \* local: date_obj of analyze_progress_over_time
    game_blunders,  \* local: game_blunders of analyze_progress_over_time
    game_eval_drop, \* local: game_eval_drop of analyze_progress_over_time
    daily_stats,    \* local: daily_stats of analyze_progress_over_time
    queries,        \* history: oracle queries of the current game walk
    drops,          \* history: qualifying drops of analyze_progress_over_time
    result,         \* what the report that just finished logged
    times,          \* retry(times, delay): the attempts allowed
    delay,          \* retry(times, delay): the pause, in tenths of a second
    wrapper,        \* position in wrapper(): "idle" | "loop" | "returned" | "raised"
    attempt,        \* local of wrapper(): the loop index
    events,         \* history: the calls of func and the sleeps of this invocation
    reply,          \* what wrapper() gave its caller: a value or an exception
    invocations     \* number of calls of the wrapped function so far

\* the retry wrapper of the API client (src/utils/decorators.py)
retryVars == <<times, delay, wrapper, attempt, events, reply, invocations>>

\* what main() holds across the reports
sessionVars == <<corpus, engine, opens, quits, retryVars>>

loopVars == <<files, i>>

walkVars == <<node, board, move_number>>

clockVars == <<previous_time, time_spent, total_seconds, clock_samples>>

evalVars == <<all_mistakes, prev_eval, issues, queries>>

progressVars == <<date_obj, game_blunders, game_eval_drop, daily_stats, drops>>

vars == <<sessionVars, pc, at, loopVars, walkVars, clockVars, evalVars,
          progressVars, result>>

---------------------------------------------------------------------------
(* Bounds of the model *)

\* most files in the game folder
MaxFiles == 2

\* most plies on the primary line of a game
MaxPlies == 4

\* most plies in the whole game folder
MaxCorpusPlies == 4

\* most attempts a retry decorator is given
MaxTimes == 3

\* most calls of a wrapped function in one session
MaxInvocations == 2

---------------------------------------------------------------------------
(* Program constants *)

\* while node.variations and move_counter < 200
ply_cutoff == 200

\* main(): max_games=157
max_games == 157

\* find_time_consuming_positions(top_n=5)
top_n == 5

\* top_blunders = sorted(...)[:5]
top_blunders_n == 5

\* score(mate_score=10000)
mate_score == 10000

\* format_eval: eval_score >= 9000 is rendered as a mate
mate_threshold == 9000

\* main(): limit_eval_drop=1.5, held here in hundredths (1.5 = 150 / 100)
limit_eval_drop_x100 == 150

\* analyze_opening_issues(move_limit=10)
move_limit == 10

\* if eval_drop > 1
opening_drop_limit == 1

\* issues.most_common(5)
most_common_n == 5

\* drop = min(drop, 1000)
drop_clamp == 1000

\* @retry(times=3, delay=1.5) of the API client
retry_times == 3

\* the same decorator's delay, in tenths of a second
retry_delay == 15

\* retry(times: int = 3, delay: float = 1.0): the default delay, in tenths
default_delay == 10

---------------------------------------------------------------------------
(* Inputs *)

None == <<>>

Some(v) == <<v>>

Min(a, b) == IF a < b THEN a ELSE b

Max(a, b) == IF a > b THEN a ELSE b

\* read_game() gives None for a file that holds no game, else a game whose
\* primary line has n plies.
Games == [ok : {FALSE}, n : {0}] \cup [ok : {TRUE}, n : 0..MaxPlies]

RECURSIVE TotalPlies(_)
TotalPlies(c) == IF c = <<>> THEN 0 ELSE Head(c).n + TotalPlies(Tail(c))

\* The games of one folder follow one line: ply k is the same move, and
\* leads to the same position, in every game that has it.
Corpora ==
    {c \in UNION {[1..k -> Games] : k \in 0..MaxFiles} :
        TotalPlies(c) <= MaxCorpusPlies}

\* the day of the Date header of a game, when "%Y.%m.%d" parses it
Days == {1, 2}

DateHeaders == [valid : {FALSE}, day : {0}] \cup [valid : {TRUE}, day : Days]

\* (minutes, seconds) of the clock annotations that occur in the comments
ClockStamps == {<<10, 0>>, <<9, 40>>, <<9, 45>>, <<9, 20>>}

\* A move comment: whether it holds the "%clk" token, whether the regex
\* "%clk\s+(\d+):(\d+)(?:\.\d+)?" matches, and the two groups matched.
Comments ==
    {[token |-> FALSE, match |-> FALSE, minutes |-> 0, seconds |-> 0],
     [token |-> TRUE, match |-> FALSE, minutes |-> 0, seconds |-> 0]}
    \cup {[token |-> TRUE, match |-> TRUE, minutes |-> c[1], seconds |-> c[2]] :
            c \in ClockStamps}

\* centipawn scores and mate distances the oracle answers with, from White's
\* point of view (a positive mate distance: White mates)
Centipawns == {-120, 150, 600}

MateDistances == {1}

OracleAnswers ==
    [kind : {"fail"}, v : {0}]
    \cup [kind : {"cp"}, v : Centipawns]
    \cup [kind : {"mate"}, v : MateDistances]

\* current_time = minutes * 60 + seconds
ClockSeconds(comment) == comment.minutes * 60 + comment.seconds

\* files[:max_games] when max_games is truthy
Truncate(fs, limit) ==
    IF limit # 0 THEN SubSeq(fs, 1, Min(Len(fs), limit)) ELSE fs

\* the locals of a report method, as they are before the method runs
NoLocals ==
    /\ files = <<>>
    /\ i = 0
    /\ node = 0
    /\ board = <<>>
    /\ move_number = 0
    /\ previous_time = None
    /\ time_spent = <<>>
    /\ total_seconds = 0
    /\ clock_samples = <<>>
    /\ all_mistakes = <<>>
    /\ prev_eval = None
    /\ issues = <<>>
    /\ date_obj = None
    /\ game_blunders = 0
    /\ game_eval_drop = 0
    /\ daily_stats = <<>>
    /\ queries = <<>>
    /\ drops = <<>>

\* a report method returns: its locals are gone
NoLocalsNext ==
    /\ files' = <<>>
    /\ i' = 0
    /\ node' = 0
    /\ board' = <<>>
    /\ move_number' = 0
    /\ previous_time' = None
    /\ time_spent' = <<>>
    /\ total_seconds' = 0
    /\ clock_samples' = <<>>
    /\ all_mistakes' = <<>>
    /\ prev_eval' = None
    /\ issues' = <<>>
    /\ date_obj' = None
    /\ game_blunders' = 0
    /\ game_eval_drop' = 0
    /\ daily_stats' = <<>>
    /\ queries' = <<>>

NoResult ==
    [report |-> "none", kind |-> "none", total |-> 0, lines |-> <<>>, tally |-> <<>>]

\* the delays the decorator is given, in tenths of a second
Delays == {default_delay, retry_delay}

\* requests.get() / raise_for_status() outcomes: the exceptions func raises
Errors == {"HTTPError", "ConnectionError"}

\* what func returns: response.json().get("archives", [])
Responses == {"empty", "archives"}

\* one call of func: it returns a value or raises an exception
CallOutcomes == [ok : {TRUE}, v : Responses] \cup [ok : {FALSE}, v : Errors]

\* wrapper() has given its caller nothing yet
NoReply == [kind |-> "none", v |-> ""]

\* the API client at rest, decorated as src/api/client.py decorates it
ClientIdle ==
    /\ times = retry_times
    /\ delay = retry_delay
    /\ wrapper = "idle"
    /\ attempt = 0
    /\ events = <<>>
    /\ reply = NoReply
    /\ invocations = 0

Init ==
    /\ ClientIdle
    /\ corpus \in Corpora
    /\ engine = "unopened"
    /\ opens = 0
    /\ quits = 0
    /\ pc = "construct"
    /\ at = "enter"
    /\ NoLocals
    /\ result = NoResult

---------------------------------------------------------------------------
(* main(), line 41: analyzer = GameAnalyzer(analysis_folder, engine_path) *)

Construct ==
    /\ pc = "construct"
    /\ engine' = "open"
    /\ opens' = opens + 1
    /\ pc' = "time"
    /\ UNCHANGED <<corpus, retryVars, quits, at, loopVars, walkVars, clockVars, evalVars,
                   progressVars, result>>

---------------------------------------------------------------------------
(* find_time_consuming_positions *)

\* sorted(xs, key=lambda x: x[key], reverse=True): stable, descending
RECURSIVE InsertDesc(_, _, _)
InsertDesc(sorted, x, key) ==
    IF sorted = <<>> THEN <<x>>
    ELSE IF Head(sorted)[key] >= x[key]
         THEN <<Head(sorted)>> \o InsertDesc(Tail(sorted), x, key)
         ELSE <<x>> \o sorted

RECURSIVE SortedDesc(_, _)
SortedDesc(xs, key) ==
    IF xs = <<>> THEN <<>>
    ELSE InsertDesc(SortedDesc(SubSeq(xs, 1, Len(xs) - 1), key), xs[Len(xs)], key)

Take(xs, k) == SubSeq(xs, 1, Min(Len(xs), k))

\* collections.Counter, as the sequence of its [key, count] entries in
\* insertion order: counter[key] += 1
Inc(counter, key) ==
    IF \E j \in 1..Len(counter) : counter[j].key = key
    THEN [j \in 1..Len(counter) |->
            IF counter[j].key = key
            THEN [counter[j] EXCEPT !.count = @ + 1] ELSE counter[j]]
    ELSE Append(counter, [key |-> key, count |-> 1])

\* Counter.most_common(k)
MostCommon(counter, k) == Take(SortedDesc(counter, "count"), k)

TimeEnter ==
    /\ pc = "time" /\ at = "enter"
    /\ files' = Truncate(corpus, max_games)
    /\ time_spent' = <<>>
    /\ i' = 0
    /\ at' = "files"
    /\ result' = NoResult
    /\ UNCHANGED <<sessionVars, pc, walkVars, previous_time, total_seconds,
                   clock_samples, evalVars, progressVars>>

\* for i, file in enumerate(files, start=1): read the game, skip an invalid file
TimeNextFile ==
    /\ pc = "time" /\ at = "files" /\ i < Len(files)
    /\ i' = i + 1
    /\ node' = 0
    /\ previous_time' = None
    /\ move_number' = 0
    /\ clock_samples' = <<>>
    /\ at' = IF files[i + 1].ok THEN "walk" ELSE "files"
    /\ UNCHANGED <<sessionVars, pc, files, board, time_spent, total_seconds,
                   evalVars, progressVars, result>>

\* TimeRecord without the test spent > 0
TimeRecord_NoSignTest(prev, current_time, file, ply) ==
    IF prev # None
    THEN <<[seconds_spent |-> prev[1] - current_time, file |-> file, ply |-> ply]>>
    ELSE <<>>

\* the record appended for a sample, or nothing
TimeRecord(prev, current_time, file, ply) ==
    IF prev # None /\ prev[1] - current_time > 0
    THEN <<[seconds_spent |-> prev[1] - current_time, file |-> file, ply |-> ply]>>
    ELSE <<>>

\* one iteration of: while node.variations and move_counter < 200.  The
\* moves of a parsed game are legal, so board_before.san() does not raise.
TimeStep ==
    /\ pc = "time" /\ at = "walk"
    /\ node < files[i].n /\ move_number < ply_cutoff
    /\ \E comment \in Comments :
         IF comment.token /\ comment.match
         THEN /\ time_spent' = time_spent \o
                    TimeRecord(previous_time, ClockSeconds(comment), i, node + 1)
              /\ previous_time' = Some(ClockSeconds(comment))
              /\ clock_samples' = Append(clock_samples, ClockSeconds(comment))
         ELSE UNCHANGED <<time_spent, previous_time, clock_samples>>
    /\ node' = node + 1
    /\ move_number' = move_number + 1
    /\ UNCHANGED <<sessionVars, pc, at, loopVars, board, total_seconds, evalVars,
                   progressVars, result>>

TimeEndGame ==
    /\ pc = "time" /\ at = "walk"
    /\ ~(node < files[i].n /\ move_number < ply_cutoff)
    /\ at' = "files"
    /\ UNCHANGED <<sessionVars, pc, loopVars, walkVars, clockVars, evalVars,
                   progressVars, result>>

\* lines 106-130: the no-data warning, or the ratios over total and the top N
TimeResult(spent) ==
    IF spent = <<>>
    THEN [report |-> "time", kind |-> "nodata", total |-> 0, lines |-> <<>>,
          tally |-> <<>>]
    ELSE [report |-> "time", kind |-> "report", total |-> Len(spent),
          lines |-> Take(SortedDesc(spent, "seconds_spent"), top_n),
          tally |-> <<>>]

TimeFinish ==
    /\ pc = "time" /\ at = "files" /\ i = Len(files)
    /\ result' = TimeResult(time_spent)
    /\ NoLocalsNext
    /\ pc' = "mistakes"
    /\ at' = "enter"
    /\ UNCHANGED <<sessionVars, drops>>

---------------------------------------------------------------------------
(* The board and the oracle, as python-chess gives them *)

\* board.turn: game.board() has White to move and every push flips the turn
Turn(b) == IF Len(b) % 2 = 0 THEN "W" ELSE "B"

\* the board that has replayed the first k plies of the primary line
Mainline(k) == [j \in 1..k |-> j]

Played(b) == {b[j] : j \in 1..Len(b)}

\* board.push(move) does not check legality.  A move that is already on the
\* board has left its from-square empty: python-chess then fails its
\* assertion "push() expects move to be pseudo-legal", or, with assertions
\* off, goes on with a board that is no position of the game.
PushOutcomes(b, k) == IF k \in Played(b) THEN {"raise", "corrupt"} ELSE {"pushed"}

Push(b, k) == Append(b, k)

\* move in board.legal_moves: the move of ply k is legal in the position
\* that precedes it on the primary line
Legal(b, k) == b = Mainline(k - 1)

\* info["score"].relative: the score from the point of view of the side to move
Relative(answer, turn) ==
    IF turn = "W" THEN answer ELSE [answer EXCEPT !.v = -answer.v]

\* Score.score(mate_score=m): centipawns, or m - n for a mate in n
ScoreOf(rel, m) ==
    IF rel.kind = "cp" THEN rel.v
    ELSE IF rel.v > 0 THEN m - rel.v ELSE -m - rel.v

\* engine.analyse(board, ...)["score"].relative.score(mate_score=10000)
Evaluate(answer, b) == ScoreOf(Relative(answer, Turn(b)), mate_score)

\* the history entry of one engine.analyse() call: the move it is made for,
\* whether before or after that move, the board analysed, whether it failed
Query(ply, phase, b, answer) ==
    [ply |-> ply, phase |-> phase, board |-> b, failed |-> answer.kind = "fail"]

\* an exception leaves the report method and main(): the locals are gone
Raise(report, error) ==
    /\ pc' = "raised"
    /\ at' = "enter"
    /\ NoLocalsNext
    /\ UNCHANGED drops
    /\ result' = [report |-> report, kind |-> "exception", total |-> 0,
                  lines |-> <<error>>, tally |-> <<>>]
    /\ UNCHANGED sessionVars

---------------------------------------------------------------------------
(* find_common_mistakes *)

\* format_eval
format_eval(eval_score) ==
    IF eval_score >= mate_threshold THEN [text |-> "#Mate for White", hundredths |-> 0]
    ELSE IF eval_score <= -mate_threshold
         THEN [text |-> "#Mate for Black", hundredths |-> 0]
         ELSE [text |-> "pawns", hundredths |-> eval_score]

\* if eval_drop > limit_eval_drop, with limit_eval_drop = 1.5
MistakeQualifies(eval_drop) == eval_drop * 100 > limit_eval_drop_x100

\* the record appended for a White ply whose two samples exist, or nothing
MistakeRecord(eval_before, eval_after, mn, ply, file, pov_before, pov_after) ==
    IF MistakeQualifies(eval_before - eval_after)
    THEN <<[move_number |-> mn, move_san |-> ply,
            eval_drop |-> eval_before - eval_after,
            eval_before |-> eval_before, eval_after |-> eval_after,
            file |-> file, pov_before |-> pov_before, pov_after |-> pov_after]>>
    ELSE <<>>

\* mistake_moves: mistake_moves[san] += 1 for every record appended
RECURSIVE mistake_moves(_)
mistake_moves(all) ==
    IF all = <<>> THEN <<>>
    ELSE Inc(mistake_moves(SubSeq(all, 1, Len(all) - 1)), all[Len(all)].move_san)

MistakesEnter ==
    /\ pc = "mistakes" /\ at = "enter"
    /\ files' = Truncate(corpus, max_games)
    /\ all_mistakes' = <<>>
    /\ i' = 0
    /\ at' = "files"
    /\ result' = NoResult
    /\ UNCHANGED <<sessionVars, pc, walkVars, clockVars, prev_eval, issues,
                   queries, progressVars>>

MistakesNextFile ==
    /\ pc = "mistakes" /\ at = "files" /\ i < Len(files)
    /\ i' = i + 1
    /\ board' = <<>>
    /\ node' = 0
    /\ move_number' = 0
    /\ queries' = <<>>
    /\ at' = IF files[i + 1].ok THEN "walk" ELSE "files"
    /\ UNCHANGED <<sessionVars, pc, files, clockVars, all_mistakes, prev_eval,
                   issues, progressVars, result>>

\* one iteration of: while node.variations (lines 185-234)
MistakesStep ==
    /\ pc = "mistakes" /\ at = "walk" /\ node < files[i].n
    /\ LET move == node + 1
           mn == move_number + 1
       IN  IF Turn(board) # "W"
           THEN \* Black to move on the board: push, advance, continue
                \E outcome \in PushOutcomes(board, move) :
                    IF outcome = "raise"
                    THEN Raise("mistakes", "AssertionError: push()")
                    ELSE /\ board' = Push(board, move)
                         /\ node' = move
                         /\ move_number' = mn
                         /\ UNCHANGED <<sessionVars, pc, at, loopVars, clockVars,
                                        evalVars, progressVars, result>>
           ELSE \E before \in OracleAnswers :
                    IF before.kind = "fail"
                    THEN \* break
                         /\ at' = "files"
                         /\ move_number' = mn
                         /\ queries' = Append(queries,
                                                Query(move, "before", board, before))
                         /\ UNCHANGED <<sessionVars, pc, loopVars, node, board,
                                        clockVars, all_mistakes, prev_eval, issues,
                                        progressVars, result>>
                    ELSE \E outcome \in PushOutcomes(board, move) :
                           IF outcome = "raise"
                           THEN Raise("mistakes", "AssertionError: push()")
                           ELSE \E after \in OracleAnswers :
                                  /\ board' = Push(board, move)
                                  /\ move_number' = mn
                                  /\ queries' = queries \o
                                       <<Query(move, "before", board, before),
                                         Query(move, "after", Push(board, move),
                                               after)>>
                                  /\ IF after.kind = "fail"
                                     THEN \* continue: node stays
                                          UNCHANGED <<node, all_mistakes>>
                                     ELSE /\ node' = move
                                          /\ all_mistakes' = all_mistakes \o
                                               MistakeRecord(
                                                 Evaluate(before, board),
                                                 Evaluate(after, Push(board, move)),
                                                 mn, move, i, Turn(board),
                                                 Turn(Push(board, move)))
                                  /\ UNCHANGED <<sessionVars, pc, at, loopVars,
                                                 clockVars, prev_eval, issues,
                                                 progressVars, result>>

MistakesEndGame ==
    /\ pc = "mistakes" /\ at = "walk" /\ ~(node < files[i].n)
    /\ at' = "files"
    /\ UNCHANGED <<sessionVars, pc, loopVars, walkVars, clockVars, evalVars,
                   progressVars, result>>

\* a line of the "Top evaluation drops" listing
MistakeLine(m) ==
    [move_san |-> m.move_san, before |-> format_eval(m.eval_before),
     after |-> format_eval(m.eval_after), eval_drop |-> m.eval_drop,
     file |-> m.file]

\* lines 236-253
MistakesResult(all) ==
    IF all = <<>>
    THEN [report |-> "mistakes", kind |-> "nodata", total |-> 0, lines |-> <<>>,
          tally |-> <<>>]
    ELSE LET top == Take(SortedDesc(all, "eval_drop"), top_blunders_n)
         IN  [report |-> "mistakes", kind |-> "report", total |-> Len(all),
              lines |-> [j \in 1..Len(top) |-> MistakeLine(top[j])],
              tally |-> MostCommon(mistake_moves(all), most_common_n)]

MistakesFinish ==
    /\ pc = "mistakes" /\ at = "files" /\ i = Len(files)
    /\ result' = MistakesResult(all_mistakes)
    /\ NoLocalsNext
    /\ pc' = "opening"
    /\ at' = "enter"
    /\ UNCHANGED <<sessionVars, drops>>

---------------------------------------------------------------------------
(* analyze_opening_issues *)

OpeningEnter ==
    /\ pc = "opening" /\ at = "enter"
    /\ files' = corpus
    /\ issues' = <<>>
    /\ i' = 0
    /\ at' = "files"
    /\ result' = NoResult
    /\ UNCHANGED <<sessionVars, pc, walkVars, clockVars, all_mistakes, prev_eval,
                   queries, progressVars>>

\* lines 262-269: game.board() on a file that holds no game raises
OpeningNextFile ==
    /\ pc = "opening" /\ at = "files" /\ i < Len(files)
    /\ IF ~files[i + 1].ok
       THEN Raise("opening", "AttributeError: game is None")
       ELSE /\ i' = i + 1
            /\ board' = <<>>
            /\ node' = 0
            /\ move_number' = 0
            /\ prev_eval' = None
            /\ queries' = <<>>
            /\ at' = "walk"
            /\ UNCHANGED <<sessionVars, pc, files, clockVars, all_mistakes, issues,
                           progressVars, result>>

OpeningQualifies(eval_drop) == eval_drop > opening_drop_limit

\* one iteration of: while node.variations and move_count < move_limit
OpeningStep ==
    /\ pc = "opening" /\ at = "walk"
    /\ node < files[i].n /\ move_number < move_limit
    /\ LET move == node + 1
           pushed == Push(board, move)
       IN  \E answer \in OracleAnswers :
             IF answer.kind = "fail"
             THEN Raise("opening", "EngineError: analyse()")
             ELSE LET score == Evaluate(answer, pushed)
                  IN  /\ board' = pushed
                      /\ move_number' = move_number + 1
                      /\ queries' = Append(queries,
                                            Query(move, "after", pushed, answer))
                      /\ issues' = IF prev_eval # None
                                      /\ OpeningQualifies(prev_eval[1] - score)
                                   THEN Inc(issues, pushed)
                                   ELSE issues
                      /\ prev_eval' = Some(score)
                      /\ node' = move
                      /\ UNCHANGED <<sessionVars, pc, at, loopVars, clockVars,
                                     all_mistakes, progressVars, result>>

OpeningEndGame ==
    /\ pc = "opening" /\ at = "walk"
    /\ ~(node < files[i].n /\ move_number < move_limit)
    /\ at' = "files"
    /\ UNCHANGED <<sessionVars, pc, loopVars, walkVars, clockVars, evalVars,
                   progressVars, result>>

\* lines 287-288: one line per entry of issues.most_common(5), and no other
OpeningResult(counter) ==
    [report |-> "opening", kind |-> "report", total |-> Len(counter),
     lines |-> MostCommon(counter, most_common_n), tally |-> <<>>]

OpeningFinish ==
    /\ pc = "opening" /\ at = "files" /\ i = Len(files)
    /\ result' = OpeningResult(issues)
    /\ NoLocalsNext
    /\ pc' = "total"
    /\ at' = "enter"
    /\ UNCHANGED <<sessionVars, drops>>

---------------------------------------------------------------------------
(* summarize_total_time_played *)

TotalEnter ==
    /\ pc = "total" /\ at = "enter"
    /\ files' = corpus
    /\ total_seconds' = 0
    /\ i' = 0
    /\ at' = "files"
    /\ result' = NoResult
    /\ UNCHANGED <<sessionVars, pc, walkVars, previous_time, time_spent,
                   clock_samples, evalVars, progressVars>>

TotalNextFile ==
    /\ pc = "total" /\ at = "files" /\ i < Len(files)
    /\ i' = i + 1
    /\ node' = 0
    /\ previous_time' = None
    /\ clock_samples' = <<>>
    /\ at' = IF files[i + 1].ok THEN "walk" ELSE "files"
    /\ UNCHANGED <<sessionVars, pc, files, board, move_number, time_spent,
                   total_seconds, evalVars, progressVars, result>>

\* if previous_time and current_time < previous_time: the seconds to add
TotalSpent(prev, current_time) ==
    IF prev # None /\ prev[1] # 0 /\ current_time < prev[1]
    THEN prev[1] - current_time ELSE 0

\* one iteration of: for node in game.mainline()
TotalStep ==
    /\ pc = "total" /\ at = "walk" /\ node < files[i].n
    /\ \E comment \in Comments :
         IF comment.token /\ comment.match
         THEN /\ total_seconds' =
                    total_seconds + TotalSpent(previous_time, ClockSeconds(comment))
              /\ previous_time' = Some(ClockSeconds(comment))
              /\ clock_samples' = Append(clock_samples, ClockSeconds(comment))
         ELSE UNCHANGED <<total_seconds, previous_time, clock_samples>>
    /\ node' = node + 1
    /\ UNCHANGED <<sessionVars, pc, at, loopVars, board, move_number, time_spent,
                   evalVars, progressVars, result>>

TotalEndGame ==
    /\ pc = "total" /\ at = "walk" /\ ~(node < files[i].n)
    /\ at' = "files"
    /\ UNCHANGED <<sessionVars, pc, loopVars, walkVars, clockVars, evalVars,
                   progressVars, result>>

\* lines 321-324
TotalResult(seconds) ==
    LET total_minutes == seconds \div 60
    IN  [report |-> "total", kind |-> "report", total |-> seconds,
         lines |-> <<[hours |-> total_minutes \div 60,
                      minutes |-> total_minutes % 60]>>,
         tally |-> <<>>]

TotalFinish ==
    /\ pc = "total" /\ at = "files" /\ i = Len(files)
    /\ result' = TotalResult(total_seconds)
    /\ NoLocalsNext
    /\ pc' = "progress"
    /\ at' = "enter"
    /\ UNCHANGED <<sessionVars, drops>>

---------------------------------------------------------------------------
(* analyze_progress_over_time *)

Abs(x) == IF x < 0 THEN -x ELSE x

\* daily_stats, a defaultdict, as the sequence of its entries in insertion
\* order.  Lines 402-404.
DailyUpdate(stats, day, blunders, eval_drop) ==
    IF \E j \in 1..Len(stats) : stats[j].day = day
    THEN [j \in 1..Len(stats) |->
            IF stats[j].day = day
            THEN [day |-> day, games |-> stats[j].games + 1,
                  blunders |-> stats[j].blunders + blunders,
                  total_eval_drop |-> stats[j].total_eval_drop + eval_drop]
            ELSE stats[j]]
    ELSE Append(stats, [day |-> day, games |-> 1, blunders |-> blunders,
                        total_eval_drop |-> eval_drop])

\* if drop > limit_eval_drop * 100, with limit_eval_drop = 1.5
BlunderQualifies(drop) == drop * 100 > limit_eval_drop_x100 * 100

\* ClampDrop without the clamp
ClampDrop_Unclamped(drop) == drop

\* drop = min(drop, 1000)
ClampDrop(drop) == Min(drop, drop_clamp)

\* if abs(eval_before) >= 9000 or abs(eval_after) >= 9000: continue
MateFiltered(eval_before, eval_after) ==
    Abs(eval_before) >= mate_threshold \/ Abs(eval_after) >= mate_threshold

ProgressEnter ==
    /\ pc = "progress" /\ at = "enter"
    /\ files' = Truncate(corpus, max_games)
    /\ daily_stats' = <<>>
    /\ i' = 0
    /\ at' = "files"
    /\ result' = NoResult
    /\ UNCHANGED <<sessionVars, pc, walkVars, clockVars, evalVars, date_obj,
                   game_blunders, game_eval_drop, drops>>

\* lines 341-357: skip a file that holds no game or no parsable Date
ProgressNextFile ==
    /\ pc = "progress" /\ at = "files" /\ i < Len(files)
    /\ i' = i + 1
    /\ queries' = <<>>
    /\ IF ~files[i + 1].ok
       THEN /\ at' = "files"
            /\ UNCHANGED <<walkVars, date_obj, game_blunders, game_eval_drop>>
       ELSE \E header \in DateHeaders :
              IF ~header.valid
              THEN /\ at' = "files"
                   /\ UNCHANGED <<walkVars, date_obj, game_blunders,
                                  game_eval_drop>>
              ELSE /\ date_obj' = Some(header.day)
                   /\ board' = <<>>
                   /\ node' = 0
                   /\ game_blunders' = 0
                   /\ game_eval_drop' = 0
                   /\ at' = "walk"
                   /\ UNCHANGED move_number
    /\ UNCHANGED <<sessionVars, pc, files, clockVars, all_mistakes, prev_eval,
                   issues, daily_stats, drops, result>>

\* ProgressLeaveGame losing the counters of a game that was cut short
ProgressLeaveGame_DropsCounters ==
    /\ at' = "files"
    /\ daily_stats' = IF node < files[i].n THEN daily_stats
                      ELSE DailyUpdate(daily_stats, date_obj[1], game_blunders,
                                       game_eval_drop)

\* the while loop is left: lines 402-404
ProgressLeaveGame ==
    /\ at' = "files"
    /\ daily_stats' =
         DailyUpdate(daily_stats, date_obj[1], game_blunders, game_eval_drop)

\* one iteration of: while node.variations (lines 359-400)
ProgressStep ==
    /\ pc = "progress" /\ at = "walk" /\ node < files[i].n
    /\ LET move == node + 1
       IN  IF Turn(board) # "W"
           THEN /\ board' = IF Legal(board, move) THEN Push(board, move) ELSE board
                /\ node' = move
                /\ UNCHANGED <<at, queries, game_blunders, game_eval_drop,
                               daily_stats, drops>>
           ELSE \E before \in OracleAnswers :
                  IF before.kind = "fail" \/ ~Legal(board, move)
                  THEN \* break
                       /\ queries' = Append(queries,
                                            Query(move, "before", board, before))
                       /\ ProgressLeaveGame
                       /\ UNCHANGED <<node, board, game_blunders, game_eval_drop,
                                      drops>>
                  ELSE \E after \in OracleAnswers :
                            LET eval_before == Evaluate(before, board)
                                eval_after == Evaluate(after, Push(board, move))
                                drop == eval_before - eval_after
                            IN  /\ queries' = queries \o
                                     <<Query(move, "before", board, before),
                                       Query(move, "after", Push(board, move),
                                             after)>>
                                /\ board' = Push(board, move)
                                /\ UNCHANGED <<at, daily_stats>>
                                /\ IF after.kind = "fail"
                                      \/ MateFiltered(eval_before, eval_after)
                                   THEN \* continue: node stays
                                        UNCHANGED <<node, game_blunders,
                                                    game_eval_drop, drops>>
                                   ELSE /\ node' = move
                                        /\ IF BlunderQualifies(drop)
                                           THEN /\ game_blunders' = game_blunders + 1
                                                /\ game_eval_drop' =
                                                     game_eval_drop + ClampDrop(drop)
                                                /\ drops' = Append(drops,
                                                     [file |-> i, day |-> date_obj[1],
                                                      drop |-> drop])
                                           ELSE UNCHANGED <<game_blunders,
                                                            game_eval_drop, drops>>
    /\ UNCHANGED <<sessionVars, pc, loopVars, move_number, clockVars, all_mistakes,
                   prev_eval, issues, date_obj, result>>

ProgressEndGame ==
    /\ pc = "progress" /\ at = "walk" /\ ~(node < files[i].n)
    /\ ProgressLeaveGame
    /\ UNCHANGED <<sessionVars, pc, loopVars, walkVars, clockVars, evalVars,
                   date_obj, game_blunders, game_eval_drop, drops, result>>

\* sorted(daily_stats.keys())
RECURSIVE InsertByDay(_, _)
InsertByDay(sorted, x) ==
    IF sorted = <<>> THEN <<x>>
    ELSE IF Head(sorted).day <= x.day
         THEN <<Head(sorted)>> \o InsertByDay(Tail(sorted), x)
         ELSE <<x>> \o sorted

RECURSIVE SortedByDay(_)
SortedByDay(xs) ==
    IF xs = <<>> THEN <<>>
    ELSE InsertByDay(SortedByDay(SubSeq(xs, 1, Len(xs) - 1)), xs[Len(xs)])

\* avg_drop = (total_eval_drop / max(blunders, 1)) / 100, as a fraction
DailyLine(stats) ==
    [day |-> stats.day, games |-> stats.games, blunders |-> stats.blunders,
     avg_drop |-> [num |-> stats.total_eval_drop,
                   den |-> Max(stats.blunders, 1) * 100]]

\* lines 406-418
ProgressResult(stats) ==
    IF stats = <<>>
    THEN [report |-> "progress", kind |-> "nodata", total |-> 0, lines |-> <<>>,
          tally |-> <<>>]
    ELSE LET days == SortedByDay(stats)
         IN  [report |-> "progress", kind |-> "report", total |-> Len(stats),
              lines |-> [j \in 1..Len(days) |-> DailyLine(days[j])],
              tally |-> <<>>]

ProgressFinish ==
    /\ pc = "progress" /\ at = "files" /\ i = Len(files)
    /\ result' = ProgressResult(daily_stats)
    /\ NoLocalsNext
    /\ pc' = "close"
    /\ at' = "enter"
    /\ UNCHANGED <<sessionVars, drops>>

---------------------------------------------------------------------------
(* main(), line 49: analyzer.close() *)

Close ==
    /\ pc = "close"
    /\ engine' = "closed"
    /\ quits' = quits + 1
    /\ pc' = "done"
    /\ UNCHANGED <<corpus, retryVars, opens, at, loopVars, walkVars, clockVars, evalVars,
                   progressVars, result>>

---------------------------------------------------------------------------
(* retry(times, delay): src/utils/decorators.py, lines 9-25 *)

\* a decorated function, before main() calls it: the analyzer does not exist
RetryInit ==
    /\ times \in 1..MaxTimes
    /\ delay \in Delays
    /\ wrapper = "idle"
    /\ attempt = 0
    /\ events = <<>>
    /\ reply = NoReply
    /\ invocations = 0
    /\ corpus = <<>>
    /\ engine = "unopened"
    /\ opens = 0
    /\ quits = 0
    /\ pc = "construct"
    /\ at = "enter"
    /\ NoLocals
    /\ result = NoResult

\* the history entry of one call of func
CallEvent(r) == [ev |-> "call", ok |-> r.ok, v |-> r.v, d |-> 0]

\* the history entry of one time.sleep(delay)
SleepEvent(d) == [ev |-> "sleep", ok |-> FALSE, v |-> "", d |-> d]

\* ShouldSleep letting the last failed attempt sleep too
ShouldSleep_EveryAttempt(a, n) == a < n

\* if attempt < times - 1
ShouldSleep(a, n) == a < n - 1

\* for attempt in range(times): the loop goes on, or wrapper() falls off
\* its end and returns None
LoopHead(a, n) ==
    IF a < n
    THEN /\ wrapper' = "loop"
         /\ reply' = NoReply
    ELSE /\ wrapper' = "returned"
         /\ reply' = [kind |-> "return", v |-> "None"]

\* main() calls a decorated method of the client (main.py, lines 28 and 35)
RetryInvoke ==
    /\ wrapper \in {"idle", "returned"}
    /\ invocations < MaxInvocations
    /\ invocations' = invocations + 1
    /\ attempt' = 0
    /\ events' = <<>>
    /\ LoopHead(0, times)
    /\ UNCHANGED <<times, delay, corpus, engine, opens, quits, pc, at, loopVars,
                   walkVars, clockVars, evalVars, progressVars, result>>

\* one iteration of: for attempt in range(times)
RetryAttempt ==
    /\ wrapper = "loop"
    /\ \E r \in CallOutcomes :
         IF r.ok
         THEN \* return func(*args, **kwargs)
              /\ events' = Append(events, CallEvent(r))
              /\ wrapper' = "returned"
              /\ reply' = [kind |-> "return", v |-> r.v]
              /\ UNCHANGED attempt
         ELSE IF ShouldSleep(attempt, times)
              THEN \* time.sleep(delay), then the next attempt
                   /\ events' = events \o <<CallEvent(r), SleepEvent(delay)>>
                   /\ attempt' = attempt + 1
                   /\ LoopHead(attempt + 1, times)
              ELSE \* raise e
                   /\ events' = Append(events, CallEvent(r))
                   /\ wrapper' = "raised"
                   /\ reply' = [kind |-> "raise", v |-> r.v]
                   /\ UNCHANGED attempt
    /\ UNCHANGED <<times, delay, invocations, corpus, engine, opens, quits, pc,
                   at, loopVars, walkVars, clockVars, evalVars, progressVars,
                   result>>

RetryNext ==
    \/ RetryInvoke
    \/ RetryAttempt

RetrySpec == RetryInit /\ [][RetryNext]_vars

---------------------------------------------------------------------------

Next ==
    \/ Construct
    \/ TimeEnter
    \/ TimeNextFile
    \/ TimeStep
    \/ TimeEndGame
    \/ TimeFinish
    \/ MistakesEnter
    \/ MistakesNextFile
    \/ MistakesStep
    \/ MistakesEndGame
    \/ MistakesFinish
    \/ OpeningEnter
    \/ OpeningNextFile
    \/ OpeningStep
    \/ OpeningEndGame
    \/ OpeningFinish
    \/ TotalEnter
    \/ TotalNextFile
    \/ TotalStep
    \/ TotalEndGame
    \/ TotalFinish
    \/ ProgressEnter
    \/ ProgressNextFile
    \/ ProgressStep
    \/ ProgressEndGame
    \/ ProgressFinish
    \/ Close

Spec == Init /\ [][Next]_vars

---------------------------------------------------------------------------
(* Properties *)

Last(xs) == xs[Len(xs)]

IsPrefix(xs, ys) == Len(xs) <= Len(ys) /\ SubSeq(ys, 1, Len(xs)) = xs

Reports == {"time", "mistakes", "opening", "total", "progress"}

\* a score seen from White's side, given the side it is relative to
WhitePov(score, pov) == IF pov = "W" THEN score ELSE -score

\* C1: the engine is opened once, at construction, and is closed exactly once
\* by the end of the session on every exit path of main(), also when a report
\* method raises: no session ends with the engine open, close() never runs twice.
C1_EngineReleasedOnEveryExit ==
    /\ opens <= 1
    /\ quits <= 1
    /\ pc \in {"done", "raised"} => (engine = "closed" /\ quits = 1)

\* C2: in every report method a file that cannot be parsed is skipped: the
\* report goes on with the next file and keeps what it has collected.
C2_BadFileSkipped ==
    [][(pc \in Reports /\ at = "files" /\ i < Len(files) /\ ~files[i + 1].ok)
        => /\ pc' = pc
           /\ at' = "files"
           /\ i' = i + 1
           /\ UNCHANGED <<time_spent, all_mistakes, issues, total_seconds,
                          daily_stats>>]_vars

\* C3: in find_common_mistakes and analyze_progress_over_time a discarded
\* sample drops only that ply: at every loop head the replay board and the
\* game node are at the same ply, every move of the primary line has been
\* applied exactly once, and the ply index is the true one.
C3_DiscardedSampleKeepsWalkInStep ==
    (pc \in {"mistakes", "progress"} /\ at = "walk")
        => /\ board = Mainline(node)
           /\ pc = "mistakes" => move_number = node

\* the step in which the oracle query made before a White move fails
PreMoveFailure ==
    /\ pc \in {"mistakes", "progress"} /\ at = "walk"
    /\ Len(queries') = Len(queries) + 1
    /\ Last(queries').phase = "before"
    /\ Last(queries').failed

\* blunders and summed drop that daily_stats holds for a day
DayBlunders(stats, day) ==
    LET S == {j \in 1..Len(stats) : stats[j].day = day}
    IN  IF S = {} THEN 0 ELSE stats[CHOOSE j \in S : TRUE].blunders

DayTotal(stats, day) ==
    LET S == {j \in 1..Len(stats) : stats[j].day = day}
    IN  IF S = {} THEN 0 ELSE stats[CHOOSE j \in S : TRUE].total_eval_drop

\* C4: when the oracle query made before a White move fails, no further ply of
\* that game is analysed, every mistake record and blunder counter collected
\* before the failure, in this game and in earlier games, is kept, and the run
\* goes on to the next game of the corpus.
C4_PreMoveFailureEndsGameOnly ==
    [][/\ PreMoveFailure
            => /\ pc' = pc /\ at' = "files" /\ i' = i /\ files' = files
               /\ all_mistakes' = all_mistakes
               /\ pc = "progress"
                    => \A day \in Days :
                         /\ DayBlunders(daily_stats', day) =
                              DayBlunders(daily_stats, day)
                              + (IF day = date_obj[1] THEN game_blunders ELSE 0)
                         /\ DayTotal(daily_stats', day) =
                              DayTotal(daily_stats, day)
                              + (IF day = date_obj[1] THEN game_eval_drop ELSE 0)
       /\ (pc \in {"mistakes", "progress"} /\ at = "files" /\ pc' = pc)
            => (i' = i + 1 /\ queries' = <<>>)
       /\ (pc = "mistakes" /\ pc' = "mistakes")
            => IsPrefix(all_mistakes, all_mistakes')
       /\ (pc = "progress" /\ pc' = "progress" /\ at # "enter")
            => \A day \in Days :
                 /\ DayBlunders(daily_stats', day) >= DayBlunders(daily_stats, day)
                 /\ DayTotal(daily_stats', day) >= DayTotal(daily_stats, day)]_vars

\* C4 witness: the second game of find_common_mistakes is cut short by a
\* pre-move failure at its third ply, with a record of each game collected.
C4_Witness ==
    /\ pc = "mistakes" /\ at = "files" /\ i = 2
    /\ node < files[i].n
    /\ queries # <<>> /\ Last(queries).phase = "before" /\ Last(queries).failed
    /\ Last(queries).ply = 3
    /\ \E j \in 1..Len(all_mistakes) : all_mistakes[j].file = 1
    /\ \E j \in 1..Len(all_mistakes) : all_mistakes[j].file = 2

\* C5: the two scores of a ply are brought to one perspective before they are
\* subtracted: eval_drop is the loss from White's point of view.
C5_DropInOnePerspective ==
    \A j \in 1..Len(all_mistakes) :
        LET r == all_mistakes[j]
        IN  r.eval_drop = WhitePov(r.eval_before, r.pov_before)
                          - WhitePov(r.eval_after, r.pov_after)

\* the spends of consecutive clock samples that are above zero
RECURSIVE PositiveSpends(_)
PositiveSpends(samples) ==
    IF Len(samples) < 2 THEN <<>>
    ELSE LET k == Len(samples)
             spent == samples[k - 1] - samples[k]
         IN  PositiveSpends(SubSeq(samples, 1, k - 1))
             \o (IF spent > 0 THEN <<spent>> ELSE <<>>)

\* seconds_spent of the records of one file, in order
SpendsOfFile(f) ==
    LET OfFile(r) == r.file = f
        recs == SelectSeq(time_spent, OfFile)
    IN  [j \in 1..Len(recs) |-> recs[j].seconds_spent]

\* C6: find_time_consuming_positions keeps one previous-clock value per game,
\* unset at the start of the game and replaced by every parsed sample; a
\* record is appended for a later sample if and only if previous - current > 0,
\* so no record has seconds_spent <= 0.
C6_SpendsOfConsecutiveSamples ==
    /\ \A j \in 1..Len(time_spent) : time_spent[j].seconds_spent > 0
    /\ (pc = "time" /\ i >= 1)
         => /\ SpendsOfFile(i) = PositiveSpends(clock_samples)
            /\ previous_time = IF clock_samples = <<>> THEN None
                               ELSE Some(Last(clock_samples))

\* C6 witness: samples 600, 580, 585, 560 have given the records 20 and 25.
C6_Witness ==
    /\ pc = "time"
    /\ clock_samples = <<600, 580, 585, 560>>
    /\ SpendsOfFile(i) = <<20, 25>>
    /\ previous_time = Some(560)

\* C7: every mistake record has eval_drop above the configured threshold, in
\* the unit of the threshold: 1.5 pawns are 150 centipawns.
C7_RecordsExceedThreshold ==
    \A j \in 1..Len(all_mistakes) :
        all_mistakes[j].eval_drop * 100 > limit_eval_drop_x100 * 100

\* the sum of the drops of a history, each clamped to 1000
RECURSIVE SumClamped(_)
SumClamped(entries) ==
    IF entries = <<>> THEN 0
    ELSE Min(Head(entries).drop, drop_clamp) + SumClamped(Tail(entries))

DropsOfDay(day) == LET OfDay(e) == e.day = day IN SelectSeq(drops, OfDay)

DropsOfFile(f) == LET OfFile(e) == e.file = f IN SelectSeq(drops, OfFile)

DropsBeforeFile(f, day) ==
    LET Earlier(e) == e.file < f /\ e.day = day IN SelectSeq(drops, Earlier)

\* C8: each qualifying drop adds min(drop, 1000) to the sum of its game, the
\* total of a day is the sum over its games, and the average reported is
\* total / max(blunders, 1) / 100; so total_eval_drop <= 1000 * blunders.
C8_ClampedDailyTotals ==
    /\ pc = "progress"
         => /\ game_eval_drop <= drop_clamp * game_blunders
            /\ \A j \in 1..Len(daily_stats) :
                 daily_stats[j].total_eval_drop
                    <= drop_clamp * daily_stats[j].blunders
            /\ at = "walk"
                 => /\ game_eval_drop = SumClamped(DropsOfFile(i))
                    /\ game_blunders = Len(DropsOfFile(i))
                    /\ \A j \in 1..Len(daily_stats) :
                         LET day == daily_stats[j].day
                         IN  /\ daily_stats[j].total_eval_drop =
                                  SumClamped(DropsBeforeFile(i, day))
                             /\ daily_stats[j].blunders =
                                  Len(DropsBeforeFile(i, day))
            /\ at = "files"
                 => \A j \in 1..Len(daily_stats) :
                         LET day == daily_stats[j].day
                         IN  /\ daily_stats[j].total_eval_drop =
                                  SumClamped(DropsOfDay(day))
                             /\ daily_stats[j].blunders = Len(DropsOfDay(day))
    /\ (result.report = "progress" /\ result.kind = "report")
         => \A j \in 1..Len(result.lines) :
              LET line == result.lines[j]
              IN  /\ line.blunders = Len(DropsOfDay(line.day))
                  /\ line.avg_drop.num = SumClamped(DropsOfDay(line.day))
                  /\ line.avg_drop.num <= drop_clamp * line.blunders
                  /\ line.avg_drop.den = 100 * Max(line.blunders, 1)
                  /\ line.avg_drop.den > 0

\* C8 witness: a day with the drops 300 and 1200 is reported with total 1300
\* over 2 blunders: 1300 / 2 / 100 = 6.5 pawns.
C8_Witness ==
    /\ result.report = "progress" /\ result.kind = "report"
    /\ \E j \in 1..Len(result.lines) :
         LET line == result.lines[j]
             ds == DropsOfDay(line.day)
         IN  /\ Len(ds) = 2
             /\ {ds[1].drop, ds[2].drop} = {300, 1200}
             /\ line.blunders = 2
             /\ line.avg_drop = [num |-> 1300, den |-> 200]

\* C9: every report method that ends on an empty corpus, or with no samples,
\* ends with an explicit no-data result, never with a report that has no line.
C9_NoDataIsExplicit ==
    /\ (result.kind = "report") => result.lines # <<>>
    /\ (corpus = <<>> /\ result.report \in Reports) => result.kind = "nodata"

\* C10: a mate result is clamped to the magnitude 9000 before it enters the
\* subtraction and the threshold comparison, and a mate for White is rendered
\* as a mate for White.
C10_MateClampedAndRendered ==
    \A j \in 1..Len(all_mistakes) :
        LET r == all_mistakes[j]
        IN  /\ Abs(r.eval_before) <= mate_threshold
            /\ Abs(r.eval_after) <= mate_threshold
            /\ WhitePov(r.eval_after, r.pov_after) >= mate_threshold
                 => format_eval(r.eval_after).text = "#Mate for White"


\* the side that plays ply k of a game that starts with White to move
Mover(k) == IF k % 2 = 1 THEN "W" ELSE "B"

\* C11: in find_common_mistakes and analyze_progress_over_time every oracle
\* query is made for a ply that White plays in the game, and every mistake
\* record belongs to a move played by White, whatever the oracle answered
\* earlier in the game.
C11_OnlyWhitePliesEvaluated ==
    /\ pc \in {"mistakes", "progress"}
         => \A j \in 1..Len(queries) : Mover(queries[j].ply) = "W"
    /\ \A j \in 1..Len(all_mistakes) : Mover(all_mistakes[j].move_san) = "W"

\* C12: analyze_opening_issues assesses every one of the first move_limit
\* plies of a game, whichever side moved, by the difference between the
\* evaluation before and the evaluation after the move: at every ply it walks
\* both samples exist, the oracle is asked about the position that results
\* from that ply and about no ply beyond move_limit, and the ply is counted,
\* under the resulting position, exactly when its drop qualifies.
C12_EveryOpeningPlyAssessed ==
    [][(pc = "opening" /\ at = "walk" /\ node' = node + 1)
        => /\ node' <= move_limit
           /\ queries' = Append(queries, Last(queries'))
           /\ Last(queries').ply = node'
           /\ Last(queries').board = Mainline(node')
           /\ prev_eval # None
           /\ prev_eval' # None
           /\ IF OpeningQualifies(prev_eval[1] - prev_eval'[1])
              THEN issues' = Inc(issues, Mainline(node'))
              ELSE issues' = issues]_vars

\* C13: the per-game walk of every report method makes progress at every
\* iteration, whatever the oracle answers: an iteration either moves the
\* current node one ply along the primary line or leaves the loop, and the
\* time-analysis walk examines no ply beyond ply_cutoff.
C13_EveryIterationAdvancesOrLeaves ==
    [][(pc \in Reports /\ at = "walk")
        => /\ node' = node + 1 \/ at' # "walk" \/ pc' # pc
           /\ (pc = "time" /\ node' = node + 1) => node' <= ply_cutoff]_vars

\* the calls of func among the events of the current invocation
Calls == LET IsCall(e) == e.ev = "call" IN SelectSeq(events, IsCall)

\* the sleeps among the events of the current invocation
Sleeps == LET IsSleep(e) == e.ev = "sleep" IN SelectSeq(events, IsSleep)

\* C14: a function wrapped by retry(times, delay), times >= 1, is called at
\* most times times per invocation; the first successful call ends the
\* invocation and its result is returned; every failed attempt but the last
\* is followed by one sleep of delay; when all times attempts have failed
\* the exception of the last one is raised to the caller.
C14_RetryContract ==
    /\ Len(Calls) <= times
    /\ \A j \in 1..Len(events) :
         /\ j % 2 = 1 => events[j].ev = "call"
         /\ j % 2 = 0 => events[j] = SleepEvent(delay)
         /\ j < Len(events) => ~events[j].ok
    /\ Len(Sleeps) <= times - 1
    /\ wrapper = "loop" => Len(events) = 2 * attempt
    /\ wrapper = "returned"
         => /\ Len(events) # 0
            /\ Last(events).ev = "call"
            /\ Last(events).ok
            /\ reply = [kind |-> "return", v |-> Last(events).v]
    /\ wrapper = "raised"
         => /\ Len(Calls) = times
            /\ Len(Sleeps) = times - 1
            /\ Last(events).ev = "call"
            /\ ~Last(events).ok
            /\ reply = [kind |-> "raise", v |-> Last(events).v]
    /\ reply.kind = "raise" <=> wrapper = "raised"
    /\ reply.kind = "return" <=> wrapper = "returned"

\* all three attempts failed with two sleeps between them, the first and the
\* last with different exceptions, and the caller got the exception of the last
C14_Witness ==
    /\ times = 3
    /\ wrapper = "raised"
    /\ Len(events) = 5
    /\ events[1].v # events[5].v
    /\ reply.v = events[5].v

===========================================================================
